---- MODULE Spec2Model ----
(***************************************************************************)
(* PitchFinder (src/app.py): the search handler of the Streamlit script,   *)
(* its ranking pipeline (catalog, filters, ETA, score, sort, top-N) and    *)
(* the Highlight button, over the session state.                           *)
(*                                                                         *)
(* Representation                                                          *)
(*   text        a sequence of one-character strings, so that lower(),     *)
(*               strip() and substring search are computed, not assumed    *)
(*   latitude,   integers, in units of 1e-7 degree (the precision of the   *)
(*   longitude   upstream data)                                            *)
(*   distance_km integer, in hundredths of a km (the code rounds to 2      *)
(*               decimals)                                                 *)
(*   score_raw   integer, in tenths of a point (the code rounds to 1       *)
(*               decimal)                                                  *)
(*   None / x    <<>> / <<x>>                                              *)
(*   DataFrame   the sequence of its rows, each a record                   *)
(*                                                                         *)
(* Specifications                                                          *)
(*   Spec           one submitted form and one state of the upstream       *)
(*                  services per behaviour, over many forms and replies    *)
(*   SpecProviders  the same handlers over replies of one pitch, over many *)
(*                  names                                                  *)
(*   SpecSession    sessions in which the form and the upstream answers    *)
(*                  change between searches                                *)
(***************************************************************************)
EXTENDS Integers, Sequences, FiniteSets, TLC

(***************************************************************************)
(* Optional values                                                         *)
(***************************************************************************)
None == <<>>

Some(x) == <<x>>

IsNone(o) == o = <<>>

Val(o) == o[1]

(***************************************************************************)
(* Text                                                                    *)
(***************************************************************************)
UPPER == <<"A","B","C","D","E","F","G","H","I","J","K","L","M","N","O","P","Q","R","S","T","U","V","W","X","Y","Z">>

LOWER == <<"a","b","c","d","e","f","g","h","i","j","k","l","m","n","o","p","q","r","s","t","u","v","w","x","y","z">>

LowerChar(c) ==
  IF \E i \in 1..Len(UPPER) : UPPER[i] = c
  THEN LOWER[CHOOSE i \in 1..Len(UPPER) : UPPER[i] = c]
  ELSE c

\* str.lower()
str_lower(s) == [i \in 1..Len(s) |-> LowerChar(s[i])]

IsSpace(c) == c \in {" ", "\t", "\n"}

\* str.strip(): leading and trailing whitespace removed
str_strip(s) ==
  LET idx == {i \in 1..Len(s) : ~IsSpace(s[i])}
      Lo == CHOOSE i \in idx : \A j \in idx : i <= j
      Hi == CHOOSE i \in idx : \A j \in idx : j <= i
  IN  IF idx = {} THEN <<>> ELSE SubSeq(s, Lo, Hi)

\* sub in s
str_in(sub, s) ==
  \E i \in 1..(Len(s) - Len(sub) + 1) : SubSeq(s, i, i + Len(sub) - 1) = sub

\* Series.str.contains("a|b|c"): the pattern is an alternation of literal
\* words, so it matches when one of the words occurs in the text.
str_contains(s, words) == \E k \in 1..Len(words) : str_in(words[k], s)

(***************************************************************************)
(* Numbers                                                                 *)
(***************************************************************************)
Abs(x) == IF x < 0 THEN -x ELSE x

Min(a, b) == IF a <= b THEN a ELSE b

Max(a, b) == IF a >= b THEN a ELSE b

\* Faulty variant: halves rounded up
RoundHalfUp(n, d) == (2 * n + d) \div (2 * d)

\* round() of numpy and of Python: n/d to the nearest integer, halves to the
\* even neighbour (n >= 0, d > 0)
RoundHalfEven(n, d) ==
  LET q == n \div d
      r == n % d
  IN  IF 2 * r < d THEN q
      ELSE IF 2 * r > d THEN q + 1
      ELSE IF q % 2 = 0 THEN q ELSE q + 1

\* Series.clip(lower, upper)
clip(x, lower, upper) == Max(lower, Min(upper, x))

(***************************************************************************)
(* 1) Distance                                                             *)
(***************************************************************************)
\* Earth radius in km
R == 6371

\* radians(): pi/180, in millionths
RAD_PER_DEG_E6 == 17453

\* haversine_km between two points of one meridian (lon1 = lon2), where
\* a = sin(dlat/2)^2 and the great-circle distance is R * |lat2 - lat1| in
\* radians.  Coordinates in 1e-7 degree, result in units of 1e-5 km (the
\* product is taken in two parts to stay within 32 bits).  Every point of
\* the model lies on the meridian of the origin.
haversine_km(lat1, lon1, lat2, lon2) ==
  LET k == (R * RAD_PER_DEG_E6) \div 1000
      d == Abs(lat2 - lat1)
  IN  ((d \div 1000) * k) \div 100 + ((d % 1000) * k) \div 100000

(***************************************************************************)
(* 3) Providers                                                            *)
(***************************************************************************)
\* Faulty variant: "five" is tested before "le five"
detect_provider_five_first(name) ==
  LET n == str_lower(name)
  IN  IF str_in(<<"u","r","b","a","n","s","o","c","c","e","r">>, n)
         \/ str_in(<<"u","r","b","a","n"," ","s","o","c","c","e","r">>, n)
      THEN "UrbanSoccer"
      ELSE IF str_in(<<"f","i","v","e">>, n)
      THEN "Five (generic)"
      ELSE IF str_in(<<"l","e"," ","f","i","v","e">>, n)
              \/ str_in(<<"l","e","f","i","v","e">>, n)
      THEN "Le Five"
      ELSE "Public/Other"

detect_provider(name) ==
  LET n == str_lower(name)
  IN  IF str_in(<<"u","r","b","a","n","s","o","c","c","e","r">>, n)
         \/ str_in(<<"u","r","b","a","n"," ","s","o","c","c","e","r">>, n)
      THEN "UrbanSoccer"
      ELSE IF str_in(<<"l","e"," ","f","i","v","e">>, n)
              \/ str_in(<<"l","e","f","i","v","e">>, n)
      THEN "Le Five"
      ELSE IF str_in(<<"f","i","v","e">>, n)
      THEN "Five (generic)"
      ELSE "Public/Other"

(***************************************************************************)
(* 4) Build DataFrame                                                      *)
(***************************************************************************)
\* {}
EmptyDict == [k \in {} |-> k]

\* dict.get(key, default)
dict_get(d, key, default) == IF key \in DOMAIN d THEN d[key] ELSE default

\* dict.get(key): None when the key is missing
dict_get_opt(d, key) == IF key \in DOMAIN d THEN Some(d[key]) ELSE None

Unnamed_pitch == <<"U","n","n","a","m","e","d"," ","p","i","t","c","h">>

\* f"{x:.6f}": x to 6 decimals; the text is determined by the number of
\* millionths, which stands for it (sign kept apart so that the quotient
\* is of a non-negative number)
fmt6(x) == IF x < 0 THEN -RoundHalfEven(-x, 10) ELSE RoundHalfEven(x, 10)

\* The representative coordinate of an element: its own lat/lon for a node,
\* the lat/lon of its "center" otherwise; a missing key reads as None.
el_lat(el) ==
  IF dict_get(el, "type", "") = "node"
  THEN dict_get_opt(el, "lat")
  ELSE dict_get_opt(dict_get(el, "center", EmptyDict), "lat")

el_lon(el) ==
  IF dict_get(el, "type", "") = "node"
  THEN dict_get_opt(el, "lon")
  ELSE dict_get_opt(dict_get(el, "center", EmptyDict), "lon")

\* One row of `rows` for an element that has a coordinate
el_row(el, user_lat, user_lon) ==
  LET tags == dict_get(el, "tags", EmptyDict)
      lat  == Val(el_lat(el))
      lon  == Val(el_lon(el))
  IN  [ name        |-> dict_get(tags, "name", Unnamed_pitch),
        distance_km |-> haversine_km(user_lat, user_lon, lat, lon),
        surface     |-> str_lower(dict_get(tags, "surface", <<>>)),
        access      |-> str_lower(dict_get(tags, "access", <<>>)),
        fee         |-> str_lower(dict_get(tags, "fee", <<>>)),
        indoor      |-> str_lower(dict_get(tags, "indoor", <<>>)),
        lat         |-> lat,
        lon         |-> lon ]

RECURSIVE el_rows(_, _, _)
el_rows(elements, user_lat, user_lon) ==
  IF elements = <<>> THEN <<>>
  ELSE LET el   == Head(elements)
           rest == el_rows(Tail(elements), user_lat, user_lon)
       IN  IF IsNone(el_lat(el)) \/ IsNone(el_lon(el))
           THEN rest
           ELSE <<el_row(el, user_lat, user_lon)>> \o rest

\* Sort keys are tuples of integers, compared position by position.
RECURSIVE key_less(_, _)
key_less(k1, k2) ==
  IF k1 = <<>> \/ k2 = <<>> THEN FALSE
  ELSE IF Head(k1) # Head(k2) THEN Head(k1) < Head(k2)
  ELSE key_less(Tail(k1), Tail(k2))

\* Insertion of a keyed row into a sequence sorted by key, after the rows
\* of equal key.
RECURSIVE insert_sorted(_, _)
insert_sorted(item, sorted) ==
  IF sorted = <<>> THEN <<item>>
  ELSE IF key_less(item.key, Head(sorted).key)
       THEN <<item>> \o sorted
       ELSE <<Head(sorted)>> \o insert_sorted(item, Tail(sorted))

RECURSIVE sort_items(_)
sort_items(items) ==
  IF items = <<>> THEN <<>>
  ELSE insert_sorted(items[Len(items)],
                     sort_items(SubSeq(items, 1, Len(items) - 1)))

\* DataFrame.sort_values([...]).reset_index(drop=True) on several columns
\* (a lexsort, which is stable): the rows in ascending order of keys[i],
\* rows of equal key in their order in df.
sort_values(df, keys) ==
  LET items  == [i \in 1..Len(df) |-> [key |-> keys[i], row |-> df[i]]]
      sorted == sort_items(items)
  IN  [i \in 1..Len(df) |-> sorted[i].row]

\* DataFrame.sort_values(by) on ONE column sorts with kind="quicksort", which
\* numpy does not make a stable sort: the order in which it leaves rows of
\* equal key is fixed by the numpy build and the processor (insertion sort
\* of a short array in one, a sorting network in another), not by the call.
\* `quicksort` is what the build in use does with rows of equal key; it is
\* the same at every call.
VARIABLE quicksort

QUICKSORTS == {"ties_in_order", "ties_reversed"}

Reverse(s) == [i \in 1..Len(s) |-> s[Len(s) + 1 - i]]

\* df.sort_values("distance_km").reset_index(drop=True)
sort_values_quicksort(df, keys) ==
  IF quicksort = "ties_in_order"
  THEN sort_values(df, keys)
  ELSE sort_values(Reverse(df), Reverse(keys))

pitches_to_df(osm_json, user_lat, user_lon) ==
  LET rows == el_rows(dict_get(osm_json, "elements", <<>>), user_lat, user_lon)
      full == [i \in 1..Len(rows) |->
                 [ name        |-> rows[i].name,
                   distance_km |-> RoundHalfEven(rows[i].distance_km, 1000),
                   surface     |-> rows[i].surface,
                   access      |-> rows[i].access,
                   fee         |-> rows[i].fee,
                   indoor      |-> rows[i].indoor,
                   lat         |-> rows[i].lat,
                   lon         |-> rows[i].lon,
                   provider    |-> detect_provider(rows[i].name),
                   pitch_id    |-> <<fmt6(rows[i].lat), fmt6(rows[i].lon)>> ]]
  IN  IF rows = <<>> THEN <<>>
      ELSE sort_values_quicksort(full, [i \in 1..Len(full) |-> <<full[i].distance_km>>])

(***************************************************************************)
(* 5) Filters                                                              *)
(***************************************************************************)
s_all == <<"a","l","l">>

s_grass == <<"g","r","a","s","s">>

s_clay == <<"c","l","a","y">>

s_synthetic == <<"s","y","n","t","h","e","t","i","c">>

s_city == <<"c","i","t","y">>

s_show_all == <<"s","h","o","w","_","a","l","l">>

s_hide_paid == <<"h","i","d","e","_","p","a","i","d">>

\* The words of the patterns "grass|gazon", "clay|sand|dirt|terre",
\* "artificial|synthetic|turf|rubber|artificial_turf", "five|city|urban",
\* "yes" and "yes|true"
GRASS_WORDS == << <<"g","r","a","s","s">>, <<"g","a","z","o","n">> >>

CLAY_WORDS ==
  << <<"c","l","a","y">>, <<"s","a","n","d">>, <<"d","i","r","t">>,
     <<"t","e","r","r","e">> >>

SYNTHETIC_WORDS ==
  << <<"a","r","t","i","f","i","c","i","a","l">>,
     <<"s","y","n","t","h","e","t","i","c">>,
     <<"t","u","r","f">>,
     <<"r","u","b","b","e","r">>,
     <<"a","r","t","i","f","i","c","i","a","l","_","t","u","r","f">> >>

CITY_NAME_WORDS ==
  << <<"f","i","v","e">>, <<"c","i","t","y">>, <<"u","r","b","a","n">> >>

INDOOR_WORDS == << <<"y","e","s">> >>

FEE_WORDS == << <<"y","e","s">>, <<"t","r","u","e">> >>

\* (df["indoor"].str.contains("yes")) | (df["name"].str.lower().str.contains("five|city|urban"))
city_mask(r) ==
  \/ str_contains(r.indoor, INDOOR_WORDS)
  \/ str_contains(str_lower(r.name), CITY_NAME_WORDS)

\* df["fee"].str.contains("yes|true")
fee_mask(r) == str_contains(r.fee, FEE_WORDS)

\* (x or default).lower().strip()
normalize(x, default) == str_strip(str_lower(IF x = <<>> THEN default ELSE x))

\* Faulty variant: the branch of "city" is missing
filter_by_pitch_type_no_city(df, pitch_type) ==
  LET pt == normalize(pitch_type, s_all)
      is_grass(r) == str_contains(r.surface, GRASS_WORDS)
      is_clay(r) == str_contains(r.surface, CLAY_WORDS)
      is_synthetic(r) == str_contains(r.surface, SYNTHETIC_WORDS)
  IN  IF pt = s_grass THEN SelectSeq(df, is_grass)
      ELSE IF pt = s_clay THEN SelectSeq(df, is_clay)
      ELSE IF pt = s_synthetic THEN SelectSeq(df, is_synthetic)
      ELSE df

filter_by_pitch_type(df, pitch_type) ==
  LET pt == normalize(pitch_type, s_all)
      is_grass(r) == str_contains(r.surface, GRASS_WORDS)
      is_clay(r) == str_contains(r.surface, CLAY_WORDS)
      is_synthetic(r) == str_contains(r.surface, SYNTHETIC_WORDS)
  IN  IF pt = s_grass THEN SelectSeq(df, is_grass)
      ELSE IF pt = s_clay THEN SelectSeq(df, is_clay)
      ELSE IF pt = s_synthetic THEN SelectSeq(df, is_synthetic)
      ELSE IF pt = s_city THEN SelectSeq(df, city_mask)
      ELSE df

\* Faulty variant: the paid filter never removes a row
apply_paid_filter_off(df, paid_filter) == df

apply_paid_filter(df, paid_filter) ==
  LET pf == normalize(paid_filter, s_show_all)
      not_paid(r) == ~fee_mask(r)
  IN  IF pf = s_hide_paid THEN SelectSeq(df, not_paid) ELSE df

(***************************************************************************)
(* 6) Profiles + ETA + Score                                               *)
(***************************************************************************)
PROFILE_NAMES == <<"Walking", "Student Budget", "Car">>

PROFILES ==
  [n \in {"Walking", "Student Budget", "Car"} |->
     IF n = "Walking" THEN [mode |-> "walk", prefer |-> <<s_city, s_synthetic>>]
     ELSE IF n = "Student Budget"
     THEN [mode |-> "walk", prefer |-> <<s_grass, s_synthetic>>]
     ELSE [mode |-> "car", prefer |-> <<s_grass, s_synthetic>>]]

SPEED_KMH == [walk |-> 5, car |-> 30]

\* out["eta_min"] = (out["distance_km"] / speed * 60).round(0).astype(int)
add_eta_minutes(df, mode) ==
  LET speed == dict_get(SPEED_KMH, mode, 5)
  IN  [i \in 1..Len(df) |->
         [ name        |-> df[i].name,
           distance_km |-> df[i].distance_km,
           surface     |-> df[i].surface,
           access      |-> df[i].access,
           fee         |-> df[i].fee,
           indoor      |-> df[i].indoor,
           lat         |-> df[i].lat,
           lon         |-> df[i].lon,
           provider    |-> df[i].provider,
           pitch_id    |-> df[i].pitch_id,
           eta_min     |-> RoundHalfEven(df[i].distance_km * 60, speed * 100) ]]

\* The +6 of the selected pitch type for one row, in tenths
selected_bonus(r, pt) ==
  IF pt = s_all THEN 0
  ELSE IF pt = s_grass
  THEN (IF str_contains(r.surface, GRASS_WORDS) THEN 60 ELSE 0)
  ELSE IF pt = s_synthetic
  THEN (IF str_contains(r.surface, SYNTHETIC_WORDS) THEN 60 ELSE 0)
  ELSE IF pt = s_clay
  THEN (IF str_contains(r.surface, CLAY_WORDS) THEN 60 ELSE 0)
  ELSE IF pt = s_city
  THEN (IF city_mask(r) THEN 60 ELSE 0)
  ELSE 0

\* The +4 of one preferred category p for one row, in tenths
prefer_bonus_one(r, p) ==
  (IF p = s_grass /\ str_contains(r.surface, GRASS_WORDS) THEN 40 ELSE 0)
  + (IF p = s_synthetic /\ str_contains(r.surface, SYNTHETIC_WORDS) THEN 40 ELSE 0)
  + (IF p = s_city /\ city_mask(r) THEN 40 ELSE 0)

\* for p in prefer: ...
RECURSIVE prefer_bonus(_, _)
prefer_bonus(r, prefer) ==
  IF prefer = <<>> THEN 0
  ELSE prefer_bonus_one(r, Head(prefer)) + prefer_bonus(r, Tail(prefer))

\* Faulty variant: no clip
score_raw_unclipped(r, prefer, pt) ==
  1000 - (r.distance_km * 10 * 10) \div 100 + selected_bonus(r, pt)
  + prefer_bonus(r, prefer) - (IF fee_mask(r) THEN 150 ELSE 0)

\* Faulty variant: the larger of the two bonuses instead of their sum
score_raw_exclusive(r, prefer, pt) ==
  clip(1000 - (r.distance_km * 10 * 10) \div 100
       + Max(selected_bonus(r, pt), prefer_bonus(r, prefer))
       - (IF fee_mask(r) THEN 150 ELSE 0), 0, 1000)

\* Faulty variant: the distance penalty added instead of subtracted
score_raw_farther_is_better(r, prefer, pt) ==
  clip(1000 + (r.distance_km * 10 * 10) \div 100 + selected_bonus(r, pt)
       + prefer_bonus(r, prefer) - (IF fee_mask(r) THEN 150 ELSE 0), 0, 1000)

\* score_raw of one row, in tenths: 100.0, minus distance_km * 10, plus the
\* bonuses, minus 15 for a fee, clipped to [0, 100] and rounded to 1 decimal
\* (distance_km has 2 decimals, so the value has 1 decimal already)
score_raw_of(r, prefer, pt) ==
  LET base     == 1000 - (r.distance_km * 10 * 10) \div 100
      selected == base + selected_bonus(r, pt)
      liked    == selected + prefer_bonus(r, prefer)
      charged  == IF fee_mask(r) THEN liked - 150 ELSE liked
  IN  clip(charged, 0, 1000)

\* stars5 = (score_raw / 20).round().clip(lower=0, upper=5).astype(int)
stars5_of(score_raw) == clip(RoundHalfEven(score_raw, 200), 0, 5)

add_recommendation_score(df, profile_name, pitch_type_selected) ==
  LET profile == PROFILES[profile_name]
      prefer  == dict_get(profile, "prefer", <<>>)
      pt      == normalize(pitch_type_selected, s_all)
  IN  [i \in 1..Len(df) |->
         LET score == score_raw_of(df[i], prefer, pt)
         IN  [ name        |-> df[i].name,
               distance_km |-> df[i].distance_km,
               surface     |-> df[i].surface,
               access      |-> df[i].access,
               fee         |-> df[i].fee,
               indoor      |-> df[i].indoor,
               lat         |-> df[i].lat,
               lon         |-> df[i].lon,
               provider    |-> df[i].provider,
               pitch_id    |-> df[i].pitch_id,
               eta_min     |-> df[i].eta_min,
               score_raw   |-> score,
               stars5      |-> stars5_of(score) ]]

(***************************************************************************)
(* 2) Upstream services                                                    *)
(***************************************************************************)
France == <<"f","r","a","n","c","e">>

\* _geocode = RateLimiter(_geolocator.geocode, min_delay_seconds=1): `geo` is
\* what the geocoder answers to the text sent, at every attempt: it finds
\* the place (found), finds nothing (none) or raises.  With the defaults of
\* RateLimiter (max_retries=2, swallow_exceptions=True,
\* return_value_on_exception=None), a call that raises a
\* GeocoderServiceError (time-out, service unavailable, quota, ...) is
\* retried, and after the last attempt the error is swallowed and None is
\* returned; any other exception is raised at once.
_geocode(geo) ==
  IF geo.answer = "raise"
  THEN IF geo.service_error
       THEN [raised |-> FALSE, loc |-> None]
       ELSE [raised |-> TRUE, error |-> geo.error]
  ELSE IF geo.answer = "none" THEN [raised |-> FALSE, loc |-> None]
  ELSE [raised |-> FALSE, loc |-> Some(geo.coords)]

\* geocode_address: ", France" is appended to an address that does not name
\* the country, and the text is sent to the geocoder.
geocode_address(address, geo) ==
  LET sent == IF str_in(France, str_lower(address))
              THEN address
              ELSE address \o <<",", " ", "F", "r", "a", "n", "c", "e">>
      loc  == _geocode(geo)
  IN  IF loc.raised THEN [raised |-> TRUE, error |-> loc.error, sent |-> sent]
      ELSE IF IsNone(loc.loc) THEN [raised |-> FALSE, coords |-> None, sent |-> sent]
      ELSE [raised |-> FALSE, coords |-> loc.loc, sent |-> sent]

endpoints ==
  << "https://overpass-api.de/api/interpreter",
     "https://overpass.kumi.systems/api/interpreter",
     "https://overpass.nchc.org.tw/api/interpreter" >>

\* requests.get(url, ...) followed by raise_for_status() and json():
\* replies[i] is what the mirror endpoints[i] does when asked (it returns
\* its JSON, or the request raises).
requests_get(url, replies) ==
  replies[CHOOSE i \in 1..Len(endpoints) : endpoints[i] = url]

\* The loop over the endpoints: `asked` is the urls requested so far,
\* last_error the error of the latest failure.
RECURSIVE overpass_try(_, _, _, _)
overpass_try(urls, replies, last_error, asked) ==
  IF urls = <<>>
  THEN [ raised |-> TRUE,
         error  |-> <<"Overpass API error (all endpoints failed). Last error: ">>
                    \o last_error,
         asked  |-> asked ]
  ELSE LET r == requests_get(Head(urls), replies)
       IN  IF r.ok
           THEN [ raised |-> FALSE, value |-> r.json,
                  asked |-> asked \o <<Head(urls)>> ]
           ELSE overpass_try(Tail(urls), replies, r.error,
                             asked \o <<Head(urls)>>)

\* Faulty variant: the mirrors are tried from the last to the first
overpass_get_pitches_backwards(replies) ==
  overpass_try(Reverse(endpoints), replies, <<"None">>, <<>>)

overpass_get_pitches(replies) == overpass_try(endpoints, replies, <<"None">>, <<>>)

(***************************************************************************)
(* State                                                                   *)
(***************************************************************************)
VARIABLES
  \* st.session_state
  df_top, selected_pitch_id, selected_lat, selected_lon, last_error,
  origin_lat, origin_lon,
  last_address, last_profile_name, last_pitch_type, last_paid_filter,
  last_radius_km, last_top_n,
  \* the pipeline's names of this run of the script (None: not assigned)
  df, df_filtered, df_ranked,
  \* osm, and df as pitches_to_df(osm, ...) returns it (None: not assigned)
  osm, catalog,
  \* the urls this run of the script has requested from the mirrors, in order
  requested,
  \* the values of the search form, and what the upstream services answer
  form, upstream,
  \* `run` of this run of the script: None when the Search button did not
  \* start it, otherwise the form submitted and the upstream answers it met
  run,
  \* history of the session, kept by no code: the first search (what was
  \* submitted, the upstream answers, its outcome) and what the page held
  \* just before the latest search
  first_search, before

session ==
  <<df_top, selected_pitch_id, selected_lat, selected_lon, last_error,
    origin_lat, origin_lon, last_address, last_profile_name, last_pitch_type,
    last_paid_filter, last_radius_km, last_top_n>>

\* What a search leaves to the page: the ranked result, the selection and
\* the error
outcome == <<df_top, selected_pitch_id, selected_lat, selected_lon, last_error>>

vars ==
  <<session, df, df_filtered, df_ranked, osm, catalog, requested, form,
    upstream, run, first_search, before, quicksort>>

(***************************************************************************)
(* 10) Run pipeline                                                        *)
(***************************************************************************)
ERR_ADDRESS == <<"Address not found. Try a more precise address.">>

ERR_NO_PITCHES == <<"No pitches found. Try increasing the radius or changing the address.">>

ERR_RADIUS == <<"No pitches within the selected radius.">>

ERR_PAID == <<"No pitches after paid filter.">>

\* df[df["distance_km"] <= float(radius_km)]
within_radius(cat, radius_km) ==
  LET in_radius(r) == r.distance_km <= radius_km * 100
  IN  SelectSeq(cat, in_radius)

\* Faulty variant: the three empty results collapsed into one generic error
empty_error_generic(cat, df_r, df_p) ==
  IF cat = <<>> \/ df_r = <<>> \/ df_p = <<>> THEN Some(ERR_NO_PITCHES) ELSE None

\* The error of the three nested `if df.empty` tests: cat is the catalog,
\* df_r its rows within the radius, df_p those the paid filter keeps.
empty_error(cat, df_r, df_p) ==
  IF cat = <<>> THEN Some(ERR_NO_PITCHES)
  ELSE IF df_r = <<>> THEN Some(ERR_RADIUS)
  ELSE IF df_p = <<>> THEN Some(ERR_PAID)
  ELSE None

\* Faulty variant: no fallback to all rows
filtered_no_fallback(df_s, pitch_type) == filter_by_pitch_type(df_s, pitch_type)

\* df_filtered: the rows of the selected pitch type, or all rows when there
\* are none of that type
filtered_or_all(df_s, pitch_type) ==
  LET df_f0 == filter_by_pitch_type(df_s, pitch_type)
  IN  IF df_f0 = <<>> THEN df_s ELSE df_f0

\* Faulty variant: ascending=[True, True]
ranked_ascending(df_f) ==
  sort_values(df_f, [i \in 1..Len(df_f) |->
                       <<df_f[i].score_raw, df_f[i].distance_km>>])

\* df_filtered.sort_values(["score_raw", "distance_km"], ascending=[False, True])
ranked(df_f) ==
  sort_values(df_f, [i \in 1..Len(df_f) |->
                       <<-(df_f[i].score_raw), df_f[i].distance_km>>])

\* Faulty variant: one row short
head_short(d, n) == SubSeq(d, 1, Min(n - 1, Len(d)))

\* DataFrame.head(n)
head(d, n) == SubSeq(d, 1, Min(n, Len(d)))

\* Faulty variant: the result and the selection of the page are not reset
cleared_keeps_result ==
  [ last_error |-> None, df_top |-> df_top, df |-> None,
    df_filtered |-> None, df_ranked |-> None,
    selected_pitch_id |-> selected_pitch_id, selected_lat |-> selected_lat,
    selected_lon |-> selected_lon ]

\* Faulty variant: the selection of the page is not reset
cleared_keeps_selection ==
  [ last_error |-> None, df_top |-> None, df |-> None,
    df_filtered |-> None, df_ranked |-> None,
    selected_pitch_id |-> selected_pitch_id, selected_lat |-> selected_lat,
    selected_lon |-> selected_lon ]

\* What a search starts from: last_error, df_top and the selection reset to
\* None, the pipeline's names not yet assigned
cleared ==
  [ last_error |-> None, df_top |-> None, df |-> None,
    df_filtered |-> None, df_ranked |-> None,
    selected_pitch_id |-> None, selected_lat |-> None,
    selected_lon |-> None ]

\* The outcome of the pipeline once the catalog `cat` is built: the error,
\* the pipeline's names and the selection.
rank(cat, profile_name, pitch_type, paid_filter, radius_km, top_n) ==
  LET df_r   == within_radius(cat, radius_km)
      df_p   == apply_paid_filter(df_r, paid_filter)
      error  == empty_error(cat, df_r, df_p)
      mode   == PROFILES[profile_name].mode
      df_s   == add_recommendation_score(add_eta_minutes(df_p, mode),
                                         profile_name, pitch_type)
      df_f   == filtered_or_all(df_s, pitch_type)
      df_k   == ranked(df_f)
      top    == head(df_k, top_n)
      none   == cleared
  IN  IF ~IsNone(error)
      THEN [none EXCEPT !.last_error = error,
                        !.df = Some(IF cat = <<>> THEN cat
                                    ELSE IF df_r = <<>> THEN df_r ELSE df_p)]
      ELSE [ last_error  |-> None,
             df_top      |-> Some(top),
             df          |-> Some(df_s),
             df_filtered |-> Some(df_f),
             df_ranked   |-> Some(df_k),
             selected_pitch_id |-> IF top = <<>> THEN None ELSE Some(top[1].pitch_id),
             selected_lat      |-> IF top = <<>> THEN None ELSE Some(top[1].lat),
             selected_lon      |-> IF top = <<>> THEN None ELSE Some(top[1].lon) ]

\* Faulty variant: a failure of an upstream service shown as an empty result
propagated_as_no_pitches(e) == ERR_NO_PITCHES

\* except Exception as e: f"Error: {e}"
propagated(e) == <<"Error: ">> \o e

\* if run: ... the handler of the Search button with the submitted form
Search ==
  \E geocoded \in {geocode_address(str_strip(form.address), upstream.geo)} :
    LET found == ~geocoded.raised /\ ~IsNone(geocoded.coords)
        none  == cleared
    IN  \E fetched \in
          { IF found THEN Some(overpass_get_pitches(upstream.replies)) ELSE None } :
        \E cat \in
          { IF IsNone(fetched) \/ Val(fetched).raised THEN None
            ELSE Some(pitches_to_df(Val(fetched).value,
                                    Val(geocoded.coords).lat,
                                    Val(geocoded.coords).lon)) } :
        \E out \in
          { IF geocoded.raised
            THEN [none EXCEPT !.last_error = Some(propagated(geocoded.error))]
            ELSE IF ~found
            THEN [none EXCEPT !.last_error = Some(ERR_ADDRESS)]
            ELSE IF Val(fetched).raised
            THEN [none EXCEPT !.last_error = Some(propagated(Val(fetched).error))]
            ELSE rank(Val(cat), form.profile_name, form.pitch_type,
                      form.paid_filter, form.radius_km, form.top_n) } :
          /\ last_address' = form.address
          /\ last_profile_name' = form.profile_name
          /\ last_pitch_type' = form.pitch_type
          /\ last_paid_filter' = form.paid_filter
          /\ last_radius_km' = form.radius_km
          /\ last_top_n' = form.top_n
          /\ origin_lat' = IF found THEN Some(Val(geocoded.coords).lat) ELSE origin_lat
          /\ origin_lon' = IF found THEN Some(Val(geocoded.coords).lon) ELSE origin_lon
          /\ last_error' = out.last_error
          /\ df_top' = out.df_top
          /\ selected_pitch_id' = out.selected_pitch_id
          /\ selected_lat' = out.selected_lat
          /\ selected_lon' = out.selected_lon
          /\ df' = out.df
          /\ df_filtered' = out.df_filtered
          /\ df_ranked' = out.df_ranked
          /\ requested' = IF IsNone(fetched) THEN <<>> ELSE Val(fetched).asked
          /\ osm' = IF IsNone(fetched) \/ Val(fetched).raised THEN None
                    ELSE Some(Val(fetched).value)
          /\ catalog' = cat
          /\ run' = Some([form |-> form, upstream |-> upstream])
          /\ UNCHANGED <<form, upstream, quicksort>>

(***************************************************************************)
(* 11) Display results: the Highlight button of card i                     *)
(***************************************************************************)
Highlight(i) ==
  /\ selected_pitch_id' = Some(Val(df_top)[i].pitch_id)
  /\ selected_lat' = Some(Val(df_top)[i].lat)
  /\ selected_lon' = Some(Val(df_top)[i].lon)
  /\ df' = None
  /\ df_filtered' = None
  /\ df_ranked' = None
  /\ osm' = None
  /\ catalog' = None
  /\ requested' = <<>>
  /\ run' = None
  /\ UNCHANGED <<df_top, last_error, origin_lat, origin_lon, last_address,
                 last_profile_name, last_pitch_type, last_paid_filter,
                 last_radius_km, last_top_n, form, upstream,
                 quicksort>>


(***************************************************************************)
(* The searches explored                                                   *)
(***************************************************************************)
\* The longest reply of the point-of-interest service, in elements
MaxElems == 7

\* The "Number of results" slider starts at 5; values up to MaxTopN are tried
TOP_N_MIN == 5

MaxTopN == 6

\* The "Rayon (km)" slider goes from 1 to 20; both ends are tried
RADIUS_MIN == 1

RADIUS_MAX == 20

\* The place the geocoder finds: Bordeaux, 44.8378 N, 0.5792 W
Bordeaux == [lat |-> 448378000, lon |-> -5792000]

North(dlat) == Bordeaux.lat + dlat

\* Elements the point-of-interest service may return, in the order it
\* returns them; all lie on the meridian of Bordeaux.
POOL ==
  << \* 12 km away, clay
     [ type |-> "node", lat |-> North(1079204), lon |-> Bordeaux.lon,
       tags |-> [ name    |-> <<"P","l","a","i","n","e">>,
                  surface |-> <<"c","l","a","y">> ] ],
     \* a relation without a center
     [ type |-> "relation",
       tags |-> [ name    |-> <<"S","t","a","d","e">>,
                  surface |-> <<"g","r","a","s","s">> ] ],
     \* 1.4 km, an indoor five-a-side hall that charges
     [ type |-> "way", center |-> [lat |-> North(125908), lon |-> Bordeaux.lon],
       tags |-> [ name   |-> <<"L","e"," ","F","i","v","e">>,
                  fee    |-> <<"y","e","s">>,
                  indoor |-> <<"Y","e","s">>,
                  access |-> <<"c","u","s","t","o","m","e","r","s">> ] ],
     \* 1.0 km to the south, grass, charges
     [ type |-> "node", lat |-> North(-89934), lon |-> Bordeaux.lon,
       tags |-> [ name    |-> <<"S","t","a","d","e">>,
                  surface |-> <<"g","r","a","s","s">>,
                  fee     |-> <<"y","e","s">> ] ],
     \* 1.0 km to the north, grass, no fee tag
     [ type |-> "node", lat |-> North(89934), lon |-> Bordeaux.lon,
       tags |-> [ name    |-> <<"S","t","a","d","e">>,
                  surface |-> <<"g","r","a","s","s">> ] ],
     \* 0.5 km, no name, grass, free
     [ type |-> "way", center |-> [lat |-> North(44967), lon |-> Bordeaux.lon],
       tags |-> [ surface |-> <<"G","r","a","s","s">>,
                  fee     |-> <<"n","o">> ] ],
     \* 0.1 km, a city stadium on artificial turf, partly indoor
     [ type |-> "node", lat |-> North(8993), lon |-> Bordeaux.lon,
       tags |-> [ name    |-> <<"C","i","t","y"," ","S","t","a","d","e">>,
                  surface |-> <<"a","r","t","i","f","i","c","i","a","l","_","t","u","r","f">>,
                  indoor  |-> <<"n","o">> ] ],
     \* 2.0 km, sand, partly covered, fee unknown
     [ type |-> "node", lat |-> North(179868), lon |-> Bordeaux.lon,
       tags |-> [ name    |-> <<"P","l","a","g","e">>,
                  surface |-> <<"s","a","n","d">>,
                  indoor  |-> <<"y","e","s",";","n","o">>,
                  fee     |-> <<"u","n","k","n","o","w","n">> ] ] >>

\* The replies explored: the runs of at most MaxElems consecutive elements
REPLIES ==
  { [elements |-> SubSeq(POOL, i, j)] :
      i \in 1..Len(POOL), j \in 0..Len(POOL) } 

Down == [ok |-> FALSE, error |-> <<"503 Server Error">>]

Slow == [ok |-> FALSE, error |-> <<"Read timed out">>]

Up(json) == [ok |-> TRUE, json |-> json]

Found == [answer |-> "found", coords |-> Bordeaux]

\* The geocoder does not answer in time: geopy's GeocoderTimedOut, a
\* GeocoderServiceError
TimedOut ==
  [answer |-> "raise", service_error |-> TRUE, error |-> <<"Service timed out">>]

\* The call fails with an exception that is no GeocoderServiceError
Broken ==
  [ answer |-> "raise", service_error |-> FALSE,
    error |-> <<"'NoneType' object has no attribute 'raw'">> ]

UPSTREAMS ==
  { [geo |-> Found, replies |-> <<Up(j), Up(j), Up(j)>>] :
      j \in {r \in REPLIES : Len(r.elements) <= MaxElems} }
  \cup { [geo |-> Found, replies |-> rs] :
           rs \in { <<Down, Up([elements |-> POOL]), Down>>,
                    <<Down, Slow, Up([elements |-> POOL])>>,
                    <<Down, Down, Slow>>,
                    <<Slow, Slow, Down>>,
                    <<Up([elements |-> POOL]), Down, Up([elements |-> <<>>])>>,
                    <<Down, Up([elements |-> SubSeq(POOL, 3, 5)]),
                      Up([elements |-> POOL])>>,
                    <<Slow, Up([elements |-> <<>>]),
                      Up([elements |-> SubSeq(POOL, 3, 5)])>> } }
  \cup { [geo |-> [answer |-> "none"], replies |-> <<Down, Down, Down>>],
         [geo |-> TimedOut, replies |-> <<Down, Down, Down>>],
         [geo |-> Broken, replies |-> <<Down, Down, Down>>] }

PITCH_TYPES == {s_all, s_grass, s_clay, s_synthetic, s_city}

PAID_FILTERS == {s_show_all, s_hide_paid}

FORMS ==
  [ address      : { <<"B","o","r","d","e","a","u","x">> },
    profile_name : {PROFILE_NAMES[i] : i \in 1..Len(PROFILE_NAMES)},
    pitch_type   : PITCH_TYPES,
    paid_filter  : PAID_FILTERS,
    radius_km    : {RADIUS_MIN, RADIUS_MAX},
    top_n        : TOP_N_MIN..MaxTopN ]

(***************************************************************************)
(* Specification: one submitted form and one state of the upstream         *)
(* services per behaviour; the session starts from init_state().           *)
(***************************************************************************)
init_state ==
  /\ df_top = None
  /\ selected_pitch_id = None
  /\ selected_lat = None
  /\ selected_lon = None
  /\ last_error = None
  /\ origin_lat = None
  /\ origin_lon = None
  /\ last_address = <<"B","o","r","d","e","a","u","x",","," ","F","r","a","n","c","e">>
  /\ last_profile_name = "Walking"
  /\ last_pitch_type = s_all
  /\ last_paid_filter = s_show_all
  /\ last_radius_km = 5
  /\ last_top_n = 10
  /\ df = None
  /\ df_filtered = None
  /\ df_ranked = None
  /\ osm = None
  /\ catalog = None
  /\ requested = <<>>
  /\ run = None
  /\ first_search = None
  /\ before = None

Init ==
  /\ init_state
  /\ quicksort \in QUICKSORTS
  /\ form \in FORMS
  /\ upstream \in UPSTREAMS

\* The cards shown, each with its Highlight button
Cards == IF IsNone(df_top) THEN {} ELSE 1..Len(Val(df_top))

Next ==
  \/ Search /\ UNCHANGED <<first_search, before>>
  \/ \E i \in Cards : Highlight(i) /\ UNCHANGED <<first_search, before>>

Spec == Init /\ [][Next]_vars

(***************************************************************************)
(* What the claims speak of, stated from the submitted form and the        *)
(* answers of the upstream services                                        *)
(***************************************************************************)
\* A search has run with the submitted form (the form's address is not the
\* address the session starts with).
Searched == last_address = form.address

\* The geocoder found the address and some endpoint answered
UpstreamOk ==
  /\ upstream.geo.answer = "found"
  /\ \E i \in 1..Len(upstream.replies) : upstream.replies[i].ok

\* The raw elements handed to the pipeline: those of the first endpoint up
RawElements ==
  LET first == CHOOSE i \in 1..Len(upstream.replies) :
                 /\ upstream.replies[i].ok
                 /\ \A j \in 1..(i - 1) : ~upstream.replies[j].ok
  IN  upstream.replies[first].json.elements

\* The raw elements that have a representative coordinate, by position
Usable(raw) == {i \in 1..Len(raw) : ~IsNone(el_lat(raw[i])) /\ ~IsNone(el_lon(raw[i]))}

\* distanceKm of a usable raw element, in hundredths of a km
DistanceOf(el) ==
  RoundHalfEven(haversine_km(Bordeaux.lat, Bordeaux.lon, Val(el_lat(el)), Val(el_lon(el))), 1000)

\* feeTag of a raw element
FeeOf(el) == str_lower(dict_get(dict_get(el, "tags", EmptyDict), "fee", <<>>))

IsPaid(fee) == str_in(<<"y","e","s">>, fee) \/ str_in(<<"t","r","u","e">>, fee)

InRadius(raw) == {i \in Usable(raw) : DistanceOf(raw[i]) <= form.radius_km * 100}

Kept(raw) ==
  {i \in InRadius(raw) : form.paid_filter = s_hide_paid => ~IsPaid(FeeOf(raw[i]))}

\* The reason a state of the session signals
Signalled ==
  IF last_error = Some(ERR_NO_PITCHES) THEN "NoResultsFound"
  ELSE IF last_error = Some(ERR_RADIUS) THEN "NoResultsInRadius"
  ELSE IF last_error = Some(ERR_PAID) THEN "AllFilteredOut"
  ELSE IF last_error = None THEN "none"
  ELSE "other"

\* C1: a search whose upstream services answered signals NoResultsFound
\* when no element is usable, otherwise NoResultsInRadius when no usable
\* element lies within the radius, otherwise AllFilteredOut when the paid
\* filter keeps none of those, otherwise no reason; the three reasons are
\* pairwise different values; a signalled reason comes with no ranked
\* result and no selection.
C1_EmptyReasonsInOrder ==
  (Searched /\ UpstreamOk) =>
    \A raw \in {RawElements} :
      /\ Signalled = ( IF Usable(raw) = {} THEN "NoResultsFound"
                       ELSE IF InRadius(raw) = {} THEN "NoResultsInRadius"
                       ELSE IF Kept(raw) = {} THEN "AllFilteredOut"
                       ELSE "none" )
      /\ ERR_NO_PITCHES # ERR_RADIUS
      /\ ERR_NO_PITCHES # ERR_PAID
      /\ ERR_RADIUS # ERR_PAID
      /\ Signalled # "none" =>
           /\ IsNone(df_top)
           /\ IsNone(selected_pitch_id)

\* AllFilteredOut is signalled although the catalog has a usable element
\* outside the radius and paying elements within it
C1_Witness ==
  /\ Searched /\ UpstreamOk
  /\ Signalled = "AllFilteredOut"
  /\ \A raw \in {RawElements} :
       /\ Usable(raw) # InRadius(raw)
       /\ InRadius(raw) # {}
       /\ Len(raw) # Cardinality(Usable(raw))

\* C2: a search whose upstream services answered and that signals none of
\* the three reasons stores a non-empty result, which is the first
\* min(topN, n) rows of the sorted set of n rows; with pitch type "all" the
\* sorted set has one row per element the radius and paid filters keep.
C2_TopNOfSorted ==
  (Searched /\ UpstreamOk /\ Signalled = "none") =>
    /\ ~IsNone(df_top)
    /\ Val(df_top) # <<>>
    /\ ~IsNone(df_ranked) =>
         \A sorted \in {Val(df_ranked)}, top \in {Val(df_top)} :
           /\ Len(top) = (IF form.top_n <= Len(sorted) THEN form.top_n ELSE Len(sorted))
           /\ \A i \in 1..Len(top) : top[i] = sorted[i]
           /\ form.pitch_type = s_all =>
                Len(sorted) = Cardinality(Kept(RawElements))

\* The sorted set is longer than topN, so the result is cut
C2_Witness ==
  /\ Searched /\ UpstreamOk /\ Signalled = "none"
  /\ ~IsNone(df_ranked)
  /\ Len(Val(df_ranked)) > form.top_n
  /\ Len(Val(df_top)) = form.top_n

\* The predicate of a pitch type on a record: a surface keyword for grass,
\* clay and synthetic; indoor containing "yes" or a name containing "five",
\* "city" or "urban" for city; every record for all.
Matches(r, type) ==
  IF type = s_grass THEN \E k \in 1..Len(GRASS_WORDS) : str_in(GRASS_WORDS[k], r.surface)
  ELSE IF type = s_clay THEN \E k \in 1..Len(CLAY_WORDS) : str_in(CLAY_WORDS[k], r.surface)
  ELSE IF type = s_synthetic
  THEN \E k \in 1..Len(SYNTHETIC_WORDS) : str_in(SYNTHETIC_WORDS[k], r.surface)
  ELSE IF type = s_city
  THEN \/ str_in(<<"y","e","s">>, r.indoor)
       \/ \E w \in {<<"f","i","v","e">>, <<"c","i","t","y">>, <<"u","r","b","a","n">>} :
            str_in(w, str_lower(r.name))
  ELSE TRUE

Rows(d) == {d[i] : i \in 1..Len(d)}

\* C3: after a search that signals no reason, with pre the scored rows the
\* radius and paid filters kept: when no row of pre matches the selected
\* pitch type the result is not empty and holds min(topN, |pre|) rows of
\* pre (all of pre when it has at most topN rows); when some row matches,
\* every row of the result matches the selected type.
C3_PitchTypeFallback ==
  (Searched /\ UpstreamOk /\ Signalled = "none" /\ ~IsNone(df)) =>
    \A pre \in {Val(df)}, top \in {Val(df_top)} :
      IF \A i \in 1..Len(pre) : ~Matches(pre[i], form.pitch_type)
      THEN /\ top # <<>>
           /\ Len(top) = (IF form.top_n <= Len(pre) THEN form.top_n ELSE Len(pre))
           /\ Rows(top) \subseteq Rows(pre)
           /\ Cardinality(Rows(top)) = Len(top)
           /\ Len(pre) <= form.top_n => Rows(top) = Rows(pre)
      ELSE \A i \in 1..Len(top) : Matches(top[i], form.pitch_type)

\* A specific type is selected, none of several rows matches it, and the
\* result holds them all
C3_Witness ==
  /\ Searched /\ UpstreamOk /\ Signalled = "none" /\ ~IsNone(df)
  /\ form.pitch_type = s_city
  /\ Len(Val(df)) >= 2
  /\ \A i \in 1..Len(Val(df)) : ~Matches(Val(df)[i], s_city)
  /\ Len(Val(df_top)) = Len(Val(df))

\* C4: in every stored result, of two adjacent rows the first has the
\* higher score_raw, or the same score_raw and a distance_km not larger.
C4_RankingOrder ==
  ~IsNone(df_top) =>
    \A top \in {Val(df_top)} :
      \A i \in 1..(Len(top) - 1) :
        \/ top[i].score_raw > top[i + 1].score_raw
        \/ /\ top[i].score_raw = top[i + 1].score_raw
           /\ top[i].distance_km <= top[i + 1].distance_km

\* A result with two adjacent rows of equal score and different distance,
\* and two adjacent rows of different score
C4_Witness ==
  /\ ~IsNone(df_top)
  /\ \E i \in 1..(Len(Val(df_top)) - 1) :
       /\ Val(df_top)[i].score_raw = Val(df_top)[i + 1].score_raw
       /\ Val(df_top)[i].distance_km < Val(df_top)[i + 1].distance_km
  /\ \E i \in 1..(Len(Val(df_top)) - 1) :
       Val(df_top)[i].score_raw > Val(df_top)[i + 1].score_raw

\* The scored rows of the last search (none when it signalled a reason)
Scored == IF IsNone(df) \/ ~IsNone(last_error) THEN {} ELSE Rows(Val(df))

\* C5: every scored row, under every profile and every selected pitch type,
\* has score_raw in [0, 100] and stars5 an integer in [0, 5].
C5_ScoreBounds ==
  /\ \A r \in Scored :
       /\ r.score_raw \in 0..1000
       /\ r.stars5 \in 0..5
  /\ ~IsNone(df_top) =>
       \A i \in 1..Len(Val(df_top)) :
         /\ Val(df_top)[i].score_raw \in 0..1000
         /\ Val(df_top)[i].stars5 \in 0..5

\* The preference set of a profile
Preferred(profile_name) ==
  IF profile_name = "Walking" THEN {s_city, s_synthetic} ELSE {s_grass, s_synthetic}

\* 100 - 10*distanceKm + 6 for the selected type + 4 per preferred category
\* matched - 15 for a fee, in tenths, before the clamp
Unclamped(r, profile_name, type) ==
  1000 - r.distance_km
  + (IF type # s_all /\ Matches(r, type) THEN 60 ELSE 0)
  + 40 * Cardinality({c \in Preferred(profile_name) : Matches(r, c)})
  - (IF IsPaid(r.fee) THEN 150 ELSE 0)

Clamp(x, lo, hi) == IF x < lo THEN lo ELSE IF x > hi THEN hi ELSE x

\* One scored row is clamped at 100 and another at 0
C5_Witness ==
  /\ \E r \in Scored :
       r.score_raw = 1000 /\ Unclamped(r, form.profile_name, form.pitch_type) > 1000
  /\ \E r \in Scored :
       r.score_raw = 0 /\ Unclamped(r, form.profile_name, form.pitch_type) < 0

\* C6: score_raw of every scored row is the clamp to [0, 100] of
\* 100 - 10*distanceKm, +6 when a type other than "all" is selected and the
\* row matches it, +4 per preferred category of the profile the row matches,
\* -15 when the fee tag contains "yes" or "true"; the bonuses add up.
C6_ScoreFormula ==
  \A r \in Scored :
    r.score_raw = Clamp(Unclamped(r, form.profile_name, form.pitch_type), 0, 1000)

\* A row matching the selected type, which the profile prefers too, scored
\* inside the clamp: it carries +10
C6_Witness ==
  \E r \in Scored :
    /\ form.pitch_type \in Preferred(form.profile_name)
    /\ Matches(r, form.pitch_type)
    /\ r.score_raw \in 1..999
    /\ r.score_raw = 1000 - r.distance_km + 100 - (IF IsPaid(r.fee) THEN 150 ELSE 0)

\* Distances added to a row's distance, in hundredths of a km
STEPS == {1, 10, 100, 1000}

\* C7: for the profile and type of the search, a record with the name and
\* tags of a scored row and a larger distance does not score higher.
C7_ScoreMonotone ==
  \A r \in Scored, k \in STEPS :
    score_raw_of([r EXCEPT !.distance_km = @ + k],
                 PROFILES[form.profile_name].prefer, form.pitch_type)
      <= r.score_raw

\* A row whose score drops with the distance, and one whose score stays
\* (it is clamped)
C7_Witness ==
  /\ \E r \in Scored, k \in STEPS :
       score_raw_of([r EXCEPT !.distance_km = @ + k],
                    PROFILES[form.profile_name].prefer, form.pitch_type)
         < r.score_raw
  /\ \E r \in Scored, k \in STEPS :
       score_raw_of([r EXCEPT !.distance_km = @ + k],
                    PROFILES[form.profile_name].prefer, form.pitch_type)
         = r.score_raw

\* n/d to the nearest integer, halves to the even neighbour
Nearest(n, d) ==
  CHOOSE k \in 0..(n \div d + 1) :
    \/ 2 * Abs(n - k * d) < d
    \/ 2 * Abs(n - k * d) = d /\ k % 2 = 0

\* Travel speed of a profile, km/h
SpeedOf(profile_name) == IF profile_name = "Car" THEN 30 ELSE 5

\* C8: every scored row has stars5 = round(score_raw / 20) within [0, 5]
\* and eta_min = round(distance_km / speed * 60), speed 5 km/h on foot and
\* 30 by car, and 5 for a mode that is not known; under Walking and type
\* "all" a grass row at 1.0 km has score 90.0, 4 stars and 12 minutes when
\* its fee is empty, and score 75.0 and 4 stars when its fee is "yes".
C8_StarsAndEta ==
  \A r \in Scored :
    /\ r.stars5 = Clamp(Nearest(r.score_raw, 200), 0, 5)
    /\ r.eta_min = Nearest(r.distance_km * 60, SpeedOf(form.profile_name) * 100)
    /\ add_eta_minutes(<<r>>, "bike")[1].eta_min = Nearest(r.distance_km * 60, 500)
    /\ ( /\ form.profile_name = "Walking"
         /\ form.pitch_type = s_all
         /\ r.distance_km = 100
         /\ r.surface = s_grass ) =>
           /\ r.fee = <<>> => r.score_raw = 900 /\ r.stars5 = 4 /\ r.eta_min = 12
           /\ r.fee = <<"y","e","s">> => r.score_raw = 750 /\ r.stars5 = 4

\* Both rows of the scenario are scored under Walking and type "all"
C8_Witness ==
  /\ form.profile_name = "Walking"
  /\ form.pitch_type = s_all
  /\ \E r \in Scored :
       r.distance_km = 100 /\ r.surface = s_grass /\ r.fee = <<>> /\ r.stars5 = 4
  /\ \E r \in Scored :
       r.distance_km = 100 /\ r.surface = s_grass /\ r.fee = <<"y","e","s">>

\* C9: every row of a stored result lies within the radius and, under
\* hide_paid, has a fee tag containing neither "yes" nor "true", whether or
\* not the pitch-type fallback was taken; under show_all the scored set has
\* one row for every usable element within the radius, the paying included.
C9_ResultWithinFilters ==
  /\ ~IsNone(df_top) =>
       \A i \in 1..Len(Val(df_top)) :
         /\ Val(df_top)[i].distance_km <= form.radius_km * 100
         /\ form.paid_filter = s_hide_paid => ~IsPaid(Val(df_top)[i].fee)
  /\ (Searched /\ UpstreamOk /\ form.paid_filter = s_show_all /\ ~IsNone(df)) =>
       \A raw \in {RawElements} :
         /\ Len(Val(df)) = Cardinality(InRadius(raw))
         /\ Cardinality({i \in 1..Len(Val(df)) : IsPaid(Val(df)[i].fee)})
              = Cardinality({i \in InRadius(raw) : IsPaid(FeeOf(raw[i]))})

\* Under hide_paid the fallback is taken, while the catalog holds a paying
\* element within the radius and a usable element outside it
C9_Witness ==
  /\ Searched /\ UpstreamOk /\ ~IsNone(df_top) /\ ~IsNone(df)
  /\ form.paid_filter = s_hide_paid
  /\ form.pitch_type # s_all
  /\ \A i \in 1..Len(Val(df)) : ~Matches(Val(df)[i], form.pitch_type)
  /\ Len(Val(df_top)) >= 2
  /\ \A raw \in {RawElements} :
       /\ \E i \in InRadius(raw) : IsPaid(FeeOf(raw[i]))
       /\ Usable(raw) # InRadius(raw)

\* The rows of d that satisfy the predicate of the type, in the order of d
Matching(d, type) ==
  LET keep(r) == Matches(r, type)
  IN  SelectSeq(d, keep)

\* The predicate with "city" read as indoor = "yes" or a name containing
\* "five", "city" or "urban"
MatchesExactIndoor(r, type) ==
  IF type = s_city
  THEN \/ r.indoor = <<"y","e","s">>
       \/ \E w \in {<<"f","i","v","e">>, <<"c","i","t","y">>, <<"u","r","b","a","n">>} :
            str_in(w, str_lower(r.name))
  ELSE Matches(r, type)

MatchingExactIndoor(d, type) ==
  LET keep(r) == MatchesExactIndoor(r, type)
  IN  SelectSeq(d, keep)

\* C10 as stated: the pitch-type filter keeps, in their order, exactly the
\* rows with a surface keyword (grass, clay, synthetic), with indoor = "yes"
\* or a name containing "five", "city" or "urban" (city), all rows (all).
C10_FilterPredicateAsStated ==
  ~IsNone(df) =>
    \A pre \in {Val(df)}, type \in PITCH_TYPES :
      filter_by_pitch_type(pre, type) = MatchingExactIndoor(pre, type)

\* C10 amended: the same with indoor containing "yes" for city; the rows
\* filtered in the search are those of the form's type, or all rows when
\* there are none; no row with an empty surface passes grass, clay or
\* synthetic.
C10_FilterPredicate ==
  ~IsNone(df) =>
    \A pre \in {Val(df)} :
      /\ \A type \in PITCH_TYPES :
           \A out \in {filter_by_pitch_type(pre, type)} :
             /\ out = Matching(pre, type)
             /\ type \in {s_grass, s_clay, s_synthetic} =>
                  \A i \in 1..Len(out) : out[i].surface # <<>>
             /\ type = s_all => out = pre
      /\ ~IsNone(df_filtered) =>
           Val(df_filtered) = ( IF Matching(pre, form.pitch_type) = <<>> THEN pre
                                ELSE Matching(pre, form.pitch_type) )

\* The city filter has kept a row whose indoor tag contains "yes" without
\* being "yes", and has dropped another row
C10_Witness ==
  /\ ~IsNone(df) /\ ~IsNone(df_filtered)
  /\ form.pitch_type = s_city
  /\ Len(Val(df_filtered)) < Len(Val(df))
  /\ \E i \in 1..Len(Val(df_filtered)) :
       /\ Val(df_filtered)[i].indoor # <<"y","e","s">>
       /\ str_in(<<"y","e","s">>, Val(df_filtered)[i].indoor)
       /\ ~MatchesExactIndoor(Val(df_filtered)[i], s_city)

(***************************************************************************)
(* The catalog                                                             *)
(***************************************************************************)
\* The record of the catalog that a usable raw element gives
IsRecordOf(r, el) ==
  /\ r.lat = Val(el_lat(el))
  /\ r.lon = Val(el_lon(el))
  /\ r.distance_km = DistanceOf(el)
  /\ r.name = dict_get(dict_get(el, "tags", EmptyDict), "name", Unnamed_pitch)

\* The place of usable element i in the order by distanceKm, elements of
\* equal distanceKm in input order
PlaceOf(raw, i) ==
  Cardinality({ j \in Usable(raw) :
                  \/ DistanceOf(raw[j]) < DistanceOf(raw[i])
                  \/ DistanceOf(raw[j]) = DistanceOf(raw[i]) /\ j < i }) + 1

\* C11 as stated: the catalog built from the raw elements has exactly one
\* record per element that has a representative coordinate, in ascending
\* order of distanceKm with the records of equal distanceKm in input order;
\* when no element has a coordinate it is the empty sequence and the search
\* ends with NoResultsFound, not with a propagated failure.
C11_CatalogInStableOrder ==
  ~IsNone(catalog) =>
    \A raw \in {Val(osm).elements} :
      \A cat \in {Val(catalog)} :
        /\ Len(cat) = Cardinality(Usable(raw))
        /\ \A i \in Usable(raw) : IsRecordOf(cat[PlaceOf(raw, i)], raw[i])
        /\ Usable(raw) = {} => cat = <<>> /\ last_error = Some(ERR_NO_PITCHES)

\* C11 without the order of equal distances, which is what every build
\* gives: one record per element that has a coordinate, in ascending order
\* of distanceKm, and the empty sequence when there is none.
C11_CatalogAscending ==
  ~IsNone(catalog) =>
    \A raw \in {Val(osm).elements} :
      \A cat \in {Val(catalog)} :
        /\ Len(cat) = Cardinality(Usable(raw))
        /\ \A i \in Usable(raw) : \E k \in 1..Len(cat) : IsRecordOf(cat[k], raw[i])
        /\ \A k \in 1..(Len(cat) - 1) : cat[k].distance_km <= cat[k + 1].distance_km
        /\ Usable(raw) = {} => cat = <<>> /\ last_error = Some(ERR_NO_PITCHES)

(***************************************************************************)
(* Providers                                                               *)
(***************************************************************************)
\* The names explored: a head, a middle and a tail, each possibly empty
NAME_HEADS ==
  { <<>>,
    <<"U","r","b","a","n"," ","S","o","c","c","e","r"," ">>,
    <<"U","R","B","A","N","S","O","C","C","E","R"," ">>,
    <<"U","r","b","a","n"," ">>,
    <<"U","r","b","a","n","-","S","o","c","c","e","r"," ">> }

NAME_MIDDLES ==
  { <<>>,
    <<"L","e"," ","F","i","v","e">>,
    <<"L","E","F","I","V","E">>,
    <<"F","i","v","e">>,
    <<"l","e"," "," ","f","i","v","e">>,
    <<"L","e"," ","F","i","v">> }

NAME_TAILS == { <<>>, <<" ","S","t","a","d","e">> }

NAMES == { h \o m \o t : h \in NAME_HEADS, m \in NAME_MIDDLES, t \in NAME_TAILS }

\* One pitch of that name, 0.5 km away, answered by every mirror
Named(name) ==
  [ geo     |-> Found,
    replies |-> [ i \in 1..Len(endpoints) |->
                    Up([elements |->
                          << [ type |-> "node", lat |-> North(44967),
                               lon |-> Bordeaux.lon,
                               tags |-> [name |-> name] ] >>]) ] ]

InitProviders ==
  /\ init_state
  /\ quicksort \in QUICKSORTS
  /\ form = [ address      |-> <<"B","o","r","d","e","a","u","x">>,
              profile_name |-> "Walking",
              pitch_type   |-> s_all,
              paid_filter  |-> s_show_all,
              radius_km    |-> RADIUS_MAX,
              top_n        |-> TOP_N_MIN ]
  /\ upstream \in {Named(n) : n \in NAMES}

SpecProviders == InitProviders /\ [][Next]_vars

\* name.lower() contains the word
Has(name, word) == str_in(word, str_lower(name))

HasUrbanSoccer(name) ==
  Has(name, <<"u","r","b","a","n","s","o","c","c","e","r">>) \/ Has(name, <<"u","r","b","a","n"," ","s","o","c","c","e","r">>)

HasLeFive(name) ==
  Has(name, <<"l","e"," ","f","i","v","e">>) \/ Has(name, <<"l","e","f","i","v","e">>)

HasFive(name) == Has(name, <<"f","i","v","e">>)

\* C12: every record of a catalog has the provider of the first rule its
\* lower-cased name matches: UrbanSoccer for "urbansoccer" or "urban soccer",
\* else LeFive for "le five" or "lefive", else FiveGeneric for "five", else
\* PublicOther; so a name with both "urban soccer" and "five" is
\* UrbanSoccer, and a name with "le five" is never FiveGeneric.
C12_ProviderPrecedence ==
  ~IsNone(catalog) =>
    \A k \in 1..Len(Val(catalog)) :
      \A r \in {Val(catalog)[k]} :
        /\ r.provider \in {"UrbanSoccer", "Le Five", "Five (generic)", "Public/Other"}
        /\ HasUrbanSoccer(r.name) => r.provider = "UrbanSoccer"
        /\ (~HasUrbanSoccer(r.name) /\ HasLeFive(r.name)) => r.provider = "Le Five"
        /\ (~HasUrbanSoccer(r.name) /\ ~HasLeFive(r.name) /\ HasFive(r.name))
             => r.provider = "Five (generic)"
        /\ (~HasUrbanSoccer(r.name) /\ ~HasLeFive(r.name) /\ ~HasFive(r.name))
             => r.provider = "Public/Other"
        /\ (Has(r.name, <<"u","r","b","a","n"," ","s","o","c","c","e","r">>) /\ HasFive(r.name)) => r.provider = "UrbanSoccer"
        /\ Has(r.name, <<"l","e"," ","f","i","v","e">>) => r.provider # "Five (generic)"

\* A catalog with a record named after a Le Five hall that is classified
\* LeFive although its name contains "five"
C12_Witness ==
  /\ ~IsNone(catalog)
  /\ \E k \in 1..Len(Val(catalog)) :
       /\ HasLeFive(Val(catalog)[k].name)
       /\ HasFive(Val(catalog)[k].name)
       /\ ~HasUrbanSoccer(Val(catalog)[k].name)
       /\ Val(catalog)[k].name # str_lower(Val(catalog)[k].name)
       /\ Val(catalog)[k].provider = "Le Five"

(***************************************************************************)
(* A session: searches with changing forms and upstream answers, and       *)
(* highlights, one after the other                                         *)
(***************************************************************************)
\* The forms of a session: any pitch within the largest radius, or city
\* pitches only within the smallest
SESSION_FORMS ==
  { [ address      |-> <<"B","o","r","d","e","a","u","x">>,
      profile_name |-> "Walking",
      pitch_type   |-> t[1],
      paid_filter  |-> s_show_all,
      radius_km    |-> t[2],
      top_n        |-> TOP_N_MIN ] :
      t \in { <<s_all, RADIUS_MAX>>, <<s_city, RADIUS_MIN>> } }

\* What the upstream services do during a session: all is well; the
\* service knows one pitch, which has no coordinate; every mirror fails;
\* the geocoder finds nothing
SESSION_UPSTREAMS ==
  { [geo |-> Found, replies |-> <<Down, Up([elements |-> POOL]), Down>>],
    [geo |-> Found, replies |-> <<Up([elements |-> SubSeq(POOL, 2, 2)]), Down, Down>>],
    [geo |-> Found, replies |-> <<Down, Down, Slow>>],
    [geo |-> [answer |-> "none"], replies |-> <<Down, Down, Down>>] }

\* The user changes the widgets of the search form (no run of the script:
\* the widgets of a form are sent with the Search button)
Fill(f) ==
  /\ f # form
  /\ form' = f
  /\ UNCHANGED <<session, df, df_filtered, df_ranked, osm, catalog, requested,
                 upstream, run, first_search, before, quicksort>>

\* The upstream services change what they answer
Answer(u) ==
  /\ u # upstream
  /\ upstream' = u
  /\ UNCHANGED <<session, df, df_filtered, df_ranked, osm, catalog, requested,
                 form, run, first_search, before, quicksort>>

\* The history of a search: the page before it, and the first search
Record ==
  /\ before' = Some(outcome)
  /\ first_search' =
       IF IsNone(first_search)
       THEN Some([form |-> form, upstream |-> upstream, outcome |-> outcome'])
       ELSE first_search

InitSession ==
  /\ init_state
  /\ quicksort \in QUICKSORTS
  /\ form \in SESSION_FORMS
  /\ upstream \in SESSION_UPSTREAMS

NextSession ==
  \/ Search /\ Record
  \/ \E i \in Cards : Highlight(i) /\ UNCHANGED <<first_search, before>>
  \/ \E f \in SESSION_FORMS : Fill(f)
  \/ \E u \in SESSION_UPSTREAMS : Answer(u)

SpecSession == InitSession /\ [][NextSession]_vars

\* The script has just run a search with the form and the upstream answers
\* of the first search of the session
SearchedAsFirst ==
  /\ ~IsNone(run)
  /\ ~IsNone(first_search)
  /\ Val(run).form = Val(first_search).form
  /\ Val(run).upstream = Val(first_search).upstream

\* What the page holds in the initial state
NOTHING == <<None, None, None, None, None>>

\* C13: a search leaves the ranked result, the selection and the error
\* that the search with the same form and the same upstream answers left
\* when it ran first, from the initial state, whatever searches and
\* highlights came in between.
C13_OutcomeOfInputsOnly ==
  SearchedAsFirst => outcome = Val(first_search).outcome

\* A search with the inputs of the first one that started from a page
\* holding something else than the initial page and than its own outcome:
\* the error of a failed search, or the result of another search with a
\* highlighted card
C13_Witness ==
  /\ SearchedAsFirst
  /\ Val(before) # NOTHING
  /\ Val(before) # outcome
  /\ \/ Val(before)[5] # None /\ last_error = None /\ ~IsNone(df_top)
     \/ /\ Val(before)[1] # None /\ last_error # None
        /\ Val(before)[2] # Some(Val(Val(before)[1])[1].pitch_id)

(***************************************************************************)
(* Failures of the upstream services                                       *)
(***************************************************************************)
\* The geocoder raised during the search just run
GeocoderRaised == ~IsNone(run) /\ Val(run).upstream.geo.answer = "raise"

\* The geocoder found the address and every mirror failed
ServiceRaised ==
  /\ ~IsNone(run)
  /\ Val(run).upstream.geo.answer = "found"
  /\ \A i \in 1..Len(Val(run).upstream.replies) : ~Val(run).upstream.replies[i].ok

\* The message of the service that raised: the geocoder's, or that of the
\* last mirror
UpstreamMessage ==
  IF GeocoderRaised THEN Val(run).upstream.geo.error
  ELSE Val(run).upstream.replies[Len(Val(run).upstream.replies)].error

\* text ends with the words of tail
EndsWith(text, tail) ==
  /\ Len(text) >= Len(tail)
  /\ SubSeq(text, Len(text) - Len(tail) + 1, Len(text)) = tail

\* The failure of the search just run is the generic one, carries the
\* message of the service that raised, comes with no ranked result and no
\* selection, and is none of NoResultsFound, NoResultsInRadius and
\* AllFilteredOut (nor the answer to an address that was not found)
GenericFailure ==
  /\ ~IsNone(last_error)
  /\ Head(Val(last_error)) = "Error: "
  /\ Len(Val(last_error)) > 1
  /\ EndsWith(Val(last_error), UpstreamMessage)
  /\ Signalled = "other"
  /\ Val(last_error) \notin {ERR_NO_PITCHES, ERR_RADIUS, ERR_PAID, ERR_ADDRESS}
  /\ IsNone(df_top) /\ IsNone(df_ranked)
  /\ IsNone(selected_pitch_id) /\ IsNone(selected_lat) /\ IsNone(selected_lon)

\* C14 as stated: a search during which the geocoder or the
\* point-of-interest service raised ends with the one generic failure that
\* carries the message of the service, with no ranked result, and this
\* outcome is none of the three structured empty-result reasons.
C14_UpstreamFailureIsGeneric ==
  (GeocoderRaised \/ ServiceRaised) => GenericFailure

\* C14 for the failures the handler does see: every mirror of the
\* point-of-interest service failed, or the geocoder raised something else
\* than a service error.
C14_PropagatedFailureIsGeneric ==
  (ServiceRaised \/ (GeocoderRaised /\ ~Val(run).upstream.geo.service_error))
    => GenericFailure

\* A search that failed because every mirror failed, the last one with a
\* timeout
C14_Witness ==
  /\ ServiceRaised
  /\ UpstreamMessage = <<"Read timed out">>
  /\ last_error =
       Some(<<"Error: ",
              "Overpass API error (all endpoints failed). Last error: ",
              "Read timed out">>)
  /\ IsNone(df_top)

(***************************************************************************)
(* The mirrors of the point-of-interest service                            *)
(***************************************************************************)
\* The mirrors that answer, by their place in the list, during the search
\* just run
Answering == {i \in 1..Len(endpoints) : Val(run).upstream.replies[i].ok}

\* The first of them
FirstAnswering == CHOOSE i \in Answering : \A j \in Answering : i <= j

\* C15: a search whose address was found asks the mirrors in the order of
\* the list; when one answers, those before it and itself have been asked
\* and no later one, and its response is the one used; when none answers,
\* all have been asked, and the search fails with the error of the last
\* mirror of the list.  Without coordinates no mirror is asked.
C15_MirrorsInOrder ==
  ~IsNone(run) =>
    IF Val(run).upstream.geo.answer # "found"
    THEN requested = <<>> /\ IsNone(osm)
    ELSE IF Answering # {}
    THEN /\ requested = SubSeq(endpoints, 1, FirstAnswering)
         /\ osm = Some(Val(run).upstream.replies[FirstAnswering].json)
         /\ Signalled # "other"
    ELSE /\ requested = endpoints
         /\ IsNone(osm)
         /\ last_error =
              Some(<<"Error: ",
                     "Overpass API error (all endpoints failed). Last error: ">>
                   \o Val(run).upstream.replies[Len(endpoints)].error)

\* The first mirror failed, the second answered and the third, which would
\* have answered something else, was not asked
C15_Witness ==
  /\ ~IsNone(run)
  /\ ~Val(run).upstream.replies[1].ok
  /\ Val(run).upstream.replies[2].ok
  /\ Val(run).upstream.replies[3].ok
  /\ Val(run).upstream.replies[3].json # Val(run).upstream.replies[2].json
  /\ requested = << "https://overpass-api.de/api/interpreter",
                    "https://overpass.kumi.systems/api/interpreter" >>
  /\ osm = Some(Val(run).upstream.replies[2].json)

(***************************************************************************)
(* The selection                                                           *)
(***************************************************************************)
\* The selection is card i of the stored result: its id and its coordinate
SelectionIsCard(i) ==
  /\ selected_pitch_id = Some(Val(df_top)[i].pitch_id)
  /\ selected_lat = Some(Val(df_top)[i].lat)
  /\ selected_lon = Some(Val(df_top)[i].lon)

\* Whenever an id is selected a ranked result is stored and the id is that
\* of one of its records; right after a search that signalled nothing the
\* selection is the first record.
SelectionInResult ==
  /\ ~IsNone(selected_pitch_id) =>
       /\ ~IsNone(df_top)
       /\ \E i \in 1..Len(Val(df_top)) : SelectionIsCard(i)
  /\ (~IsNone(run) /\ IsNone(last_error)) =>
       /\ ~IsNone(df_top) /\ Val(df_top) # <<>>
       /\ SelectionIsCard(1)

\* A step that is no search (the script has not run, or has run without
\* the Search button) leaves the stored result, the error and the rest of
\* the session as they are, but for the selection.
OnlySelectionChanges ==
  (run' = run \/ IsNone(run')) =>
    /\ df_top' = df_top
    /\ last_error' = last_error
    /\ <<origin_lat, origin_lon, last_address, last_profile_name,
         last_pitch_type, last_paid_filter, last_radius_km, last_top_n>>'
       = <<origin_lat, origin_lon, last_address, last_profile_name,
           last_pitch_type, last_paid_filter, last_radius_km, last_top_n>>

\* C16: over any sequence of searches and highlights, a selected id is the
\* id of a record of the stored ranked result; right after a successful
\* search it is the id of the first record; a highlight changes the
\* selection (id, lat, lon) only, not the stored result nor the error.
C16_SelectionInvariant == []SelectionInResult /\ [][OnlySelectionChanges]_vars

\* After at least two searches, a highlight has moved the selection from
\* the first record to a later one of the stored result
C16_Witness ==
  /\ IsNone(run)
  /\ ~IsNone(before) /\ Val(before) # NOTHING
  /\ ~IsNone(df_top) /\ IsNone(last_error)
  /\ ~SelectionIsCard(1)
  /\ \E i \in 2..Len(Val(df_top)) : SelectionIsCard(i)

====
